---- MODULE Spec2Model ----
(***************************************************************************)
(* A model of aco-pathfind: the roulette selector (src/src/roulette.rs and *)
(* VerticeProbabilities in src/src/aco.rs), the grid map, its neighbourhood*)
(* function, cost and layout functions (src/src/aco.rs, src/src/main.rs),  *)
(* and the walk controller that spec.md section 4.6 describes.             *)
(*                                                                         *)
(* f32 values are fixed-point integers: a selector weight is a whole number*)
(* of weight units, a cost or pheromone value is a whole number of         *)
(* 1/ONE-ths.  Option<T> is a sequence: None is <<>>, Some(v) is <<v>>.    *)
(* A vertex (VerticeLoc) is the pair <<x, y>>.                             *)
(***************************************************************************)
EXTENDS Integers, Sequences, FiniteSets, TLC

\* ---------------------------------------------------------------- bounds
\* Most (weight, item) pairs pushed onto a candidate collection.
MaxLen == 3
\* The weights pushed, in weight units of 0.1: the tests' 0.5, 0.2 and 0.3,
\* and 0.
Weights == {0, 2, 3, 5}
\* Most RouletteSubjects::roulette calls on one collection (each call grows
\* the stored weights, so the calls are capped).
MaxCalls == 2

\* ---------------------------------------------------------------- Option
None == <<>>
Some(v) == <<v>>

Range(s) == {s[i] : i \in 1..Len(s)}
Front(s) == SubSeq(s, 1, Len(s) - 1)
Last(s) == s[Len(s)]

\* ------------------------------------------------------ roulette selector
\* A candidate is [w |-> weight, item |-> item].

\* slice::sort_by is a stable merge sort: ascending by weight, equal weights
\* keep their order.  insert_sorted puts p behind every element <= p.
RECURSIVE insert_sorted(_, _)
insert_sorted(s, p) ==
    IF s = <<>> THEN <<p>>
    ELSE IF Last(s).w <= p.w THEN Append(s, p)
    ELSE Append(insert_sorted(Front(s), p), Last(s))

RECURSIVE sort(_)
sort(s) ==
    IF s = <<>> THEN <<>> ELSE insert_sorted(sort(Front(s)), Last(s))

\* probability_sum += pair.0; pair.0 = probability_sum, over the whole vector.
RECURSIVE accumulate(_)
accumulate(s) ==
    IF s = <<>> THEN <<>>
    ELSE LET front == accumulate(Front(s))
             probability_sum == IF front = <<>> THEN 0 ELSE Last(front).w
         IN Append(front, [w |-> probability_sum + Last(s).w, item |-> Last(s).item])

\* The value of probability_sum after the loop.
probability_sum_of(cum) == IF cum = <<>> THEN 0 ELSE Last(cum).w

\* rng.gen::<f32>() is uniform in [0, 1); times probability_sum it is a value
\* of [0, probability_sum), and 0 when probability_sum is 0.
Draws(probability_sum) ==
    IF probability_sum = 0 THEN {0} ELSE 0..(probability_sum - 1)

\* search with `>` for `>=` in the test of the lower boundary.
RECURSIVE search_strict(_, _, _, _)
search_strict(vec, random, previous, i) ==
    IF i > Len(vec) THEN None
    ELSE IF random > previous /\ random < vec[i].w THEN Some(vec[i].item)
    ELSE search_strict(vec, random, vec[i].w, i + 1)

\* for pair in vec { if random >= previous && random < pair.0 { return Some }
\*                   else { previous = pair.0 } }  None
RECURSIVE search(_, _, _, _)
search(vec, random, previous, i) ==
    IF i > Len(vec) THEN None
    ELSE IF random >= previous /\ random < vec[i].w THEN Some(vec[i].item)
    ELSE search(vec, random, vec[i].w, i + 1)

\* VerticeProbabilities::sort: the same stable sort_by.
VerticeProbabilities_sort(s) == sort(s)

\* What VerticeProbabilities::roulette returns for the draw `random`:
\* it sorts and accumulates a clone, self is untouched.
VerticeProbabilities_result(self, random) ==
    search(accumulate(VerticeProbabilities_sort(self)), random, 0, 1)

\* What RouletteSubjects::roulette leaves in self.0: sorted and accumulated
\* in place.
RouletteSubjects_after(self) == accumulate(sort(self))

\* What RouletteSubjects::roulette returns for the draw `random`.
RouletteSubjects_result(self, random) ==
    search(RouletteSubjects_after(self), random, 0, 1)

\* ------------------------------------------------------------------- f32
\* An f32 that is not a weight: a rational n/d (d > 0), an infinity (n is its
\* sign) or NaN.  Rounding is not modelled; division by zero and NaN are.
Fin(n, d) == [k |-> "fin", n |-> n, d |-> d]
Inf(s) == [k |-> "inf", n |-> s, d |-> 0]
NaN == [k |-> "nan", n |-> 0, d |-> 0]
FromInt(i) == Fin(i, 1)
Sign(i) == IF i > 0 THEN 1 ELSE IF i < 0 THEN -1 ELSE 0
Abs(i) == IF i < 0 THEN -i ELSE i

FDiv(a, b) ==
    IF a.k = "nan" \/ b.k = "nan" THEN NaN
    ELSE IF a.k = "inf" THEN (IF b.k = "inf" THEN NaN
                              ELSE Inf(a.n * (IF b.n < 0 THEN -1 ELSE 1)))
    ELSE IF b.k = "inf" THEN Fin(0, 1)
    ELSE IF b.n = 0 THEN (IF a.n = 0 THEN NaN ELSE Inf(Sign(a.n)))
    ELSE Fin(a.n * b.d * Sign(b.n), a.d * Abs(b.n))

FMul(a, b) ==
    IF a.k = "nan" \/ b.k = "nan" THEN NaN
    ELSE IF a.k = "inf" \/ b.k = "inf"
         THEN (IF Sign(a.n) * Sign(b.n) = 0 THEN NaN ELSE Inf(Sign(a.n) * Sign(b.n)))
    ELSE Fin(a.n * b.n, a.d * b.d)

FAdd(a, b) ==
    IF a.k = "nan" \/ b.k = "nan" THEN NaN
    ELSE IF a.k = "inf" THEN (IF b.k = "inf" /\ b.n # a.n THEN NaN ELSE a)
    ELSE IF b.k = "inf" THEN b
    ELSE Fin(a.n * b.d + b.n * a.d, a.d * b.d)

FSub(a, b) == FAdd(a, FMul(FromInt(-1), b))

\* f32 == : NaN equals nothing, itself included.
FEq(a, b) ==
    /\ a.k # "nan" /\ b.k # "nan"
    /\ IF a.k = "inf" \/ b.k = "inf" THEN a.k = b.k /\ a.n = b.n
       ELSE a.n * b.d = b.n * a.d

\* f32 > : false when either side is NaN.
FGt(a, b) ==
    /\ a.k # "nan" /\ b.k # "nan"
    /\ IF a.k = "inf" THEN a.n = 1 /\ ~(b.k = "inf" /\ b.n = 1)
       ELSE IF b.k = "inf" THEN b.n = -1
       ELSE a.n * b.d > b.n * a.d

\* ------------------------------------------------------------- the graph
\* Costs and pheromone are fixed-point: ONE is the literal 1.0 and SQRT_OF_2
\* the constant 1.41421356237, in 1/ONE-ths.
ONE == 100
SQRT_OF_2 == 141

\* The loops `for i in &[-1, 0, 1]`.
Offsets == <<-1, 0, 1>>

\* ACOGraph::idx
idx(width, vertice) == vertice[1] + vertice[2] * width

\* ACOGraph::new: MatDyn::from_diagonal_element(n, n, 0.0) is an n x n matrix
\* with 0.0 on the diagonal and zero elsewhere.  mat is indexed by <<col, row>>.
ACOGraph_new(width, height) ==
    LET n_vertices == width * height
    IN [mat |-> [p \in (0..(n_vertices - 1)) \X (0..(n_vertices - 1)) |->
                    IF p[1] = p[2] THEN 0 ELSE 0],
        width |-> width, height |-> height]

\* ACOGraph::get_edg_value: self.mat[(col, row)], row = idx(v0), col = idx(v1).
get_edg_value(self, v0, v1) ==
    self.mat[<<idx(self.width, v1), idx(self.width, v0)>>]

\* ACOGraph::set_edg_value
set_edg_value(self, v0, v1, value) ==
    [self EXCEPT !.mat[<<idx(self.width, v1), idx(self.width, v0)>>] = value]

\* cost with `||` for `&&`.
cost_either(v0, v1) ==
    IF v0[1] # v1[1] \/ v0[2] # v1[2] THEN SQRT_OF_2 ELSE ONE

\* ACOMap::cost (the same in aco.rs and main.rs)
cost(v0, v1) ==
    IF v0[1] # v1[1] /\ v0[2] # v1[2] THEN SQRT_OF_2 ELSE ONE

\* get_neighbours without its test `(*i == 0 && *j == 0)`.
column_keeping_self(width, height, vertice, i) ==
    LET new_x == vertice[1] + i
        cell(k) == <<new_x, vertice[2] + Offsets[k]>>
        pick(k) == IF cell(k)[2] < 0 \/ cell(k)[2] >= height
                   THEN <<>> ELSE <<cell(k)>>
    IN IF new_x < 0 \/ new_x >= width THEN <<>>
       ELSE pick(1) \o pick(2) \o pick(3)

\* The cells get_neighbours pushes for one offset i of its outer loop
\* `for i in &[-1, 0, 1]`, in the order of the inner loop `for j`.
column(width, height, vertice, i) ==
    LET new_x == vertice[1] + i
        cell(k) == <<new_x, vertice[2] + Offsets[k]>>
        pick(k) == IF \/ cell(k)[2] < 0
                      \/ cell(k)[2] >= height
                      \/ (i = 0 /\ Offsets[k] = 0)
                   THEN <<>> ELSE <<cell(k)>>
    IN IF new_x < 0 \/ new_x >= width THEN <<>>
       ELSE pick(1) \o pick(2) \o pick(3)

\* ACOMap::get_neighbours
get_neighbours(self, vertice) ==
    LET w == self.pheromone_graph.width
        h == self.pheromone_graph.height
    IN column(w, h, vertice, Offsets[1]) \o column(w, h, vertice, Offsets[2])
       \o column(w, h, vertice, Offsets[3])

\* The same loops with `||` for `&&` in the test for the vertex itself: every
\* cell of its row and of its column is skipped.
column_diagonal_only(width, height, vertice, i, exclusions) ==
    LET new_x == vertice[1] + i
        cell(k) == <<new_x, vertice[2] + Offsets[k]>>
        pick(k) == IF \/ cell(k)[2] < 0
                      \/ cell(k)[2] >= height
                      \/ (i = 0 \/ Offsets[k] = 0)
                   THEN <<>>
                   ELSE IF cell(k) \notin Range(exclusions) THEN <<cell(k)>> ELSE <<>>
    IN IF new_x < 0 \/ new_x >= width THEN <<>>
       ELSE pick(1) \o pick(2) \o pick(3)

\* The cells get_neighbours_with_exclusions pushes for one offset i of its
\* outer loop: the same cells, without those the exclusion list contains.
column_with_exclusions(width, height, vertice, i, exclusions) ==
    LET new_x == vertice[1] + i
        cell(k) == <<new_x, vertice[2] + Offsets[k]>>
        pick(k) == IF \/ cell(k)[2] < 0
                      \/ cell(k)[2] >= height
                      \/ (i = 0 /\ Offsets[k] = 0)
                   THEN <<>>
                   ELSE IF cell(k) \notin Range(exclusions) THEN <<cell(k)>> ELSE <<>>
    IN IF new_x < 0 \/ new_x >= width THEN <<>>
       ELSE pick(1) \o pick(2) \o pick(3)

\* get_neighbours_with_exclusions without its test `!exclusions.contains`.
get_neighbours_ignoring_exclusions(self, vertice, exclusions) ==
    get_neighbours(self, vertice)

\* ACOMap::get_neighbours_with_exclusions
get_neighbours_with_exclusions(self, vertice, exclusions) ==
    LET w == self.pheromone_graph.width
        h == self.pheromone_graph.height
    IN column_with_exclusions(w, h, vertice, Offsets[1], exclusions)
       \o column_with_exclusions(w, h, vertice, Offsets[2], exclusions)
       \o column_with_exclusions(w, h, vertice, Offsets[3], exclusions)

\* ACOMap::get_likelyhood_factor: pheromone / cost, in 1/ONE-ths.
get_likelyhood_factor(self, v0, v1) ==
    (get_edg_value(self.pheromone_graph, v0, v1) * ONE) \div cost(v0, v1)

RECURSIVE SumW(_)
SumW(s) == IF s = <<>> THEN 0 ELSE SumW(Front(s)) + Last(s).w

\* VerticeProbabilities::roulette up to the draw: the sorted, accumulated clone.
VerticeProbabilities_cumulative(self) == accumulate(VerticeProbabilities_sort(self))

\* ACOMap::get_next_vertice, which asks get_neighbours and has no exclusions:
\* what get_next_vertice_with_exclusions is if it calls get_neighbours.  Its
\* draw is rng.gen() itself, a value of [0, 1).
get_next_vertice(self, current, exclusions) ==
    LET nb == get_neighbours(self, current)
        likelyhoods == [k \in 1..Len(nb) |->
                           [w |-> get_likelyhood_factor(self, current, nb[k]),
                            item |-> nb[k]]]
        likelyhood_sum == SumW(likelyhoods)
        neighbours == [k \in 1..Len(nb) |->
                          [w |-> (likelyhoods[k].w * ONE) \div likelyhood_sum,
                           item |-> nb[k]]]
        vec == accumulate(sort(neighbours))
    IN {search(vec, random, 0, 1) : random \in Draws(ONE)}

\* ACOMap::get_next_vertice_with_exclusions: the set of values it can return,
\* one for each draw of the random generator.
get_next_vertice_with_exclusions(self, current, exclusions) ==
    LET nb == get_neighbours_with_exclusions(self, current, exclusions)
        likelyhoods == [k \in 1..Len(nb) |->
                           [w |-> get_likelyhood_factor(self, current, nb[k]),
                            item |-> nb[k]]]
        likelyhood_sum == SumW(likelyhoods)
        neighbours == [k \in 1..Len(nb) |->
                          [w |-> (likelyhoods[k].w * ONE) \div likelyhood_sum,
                           item |-> nb[k]]]
        vec == VerticeProbabilities_cumulative(neighbours)
    IN IF Len(nb) = 0 THEN {None}
       ELSE {search(vec, random, 0, 1) : random \in Draws(probability_sum_of(vec))}

\* ACOMap::new with `>=` for `>` in the test of the rate.
ACOMap_new_rate_ge(width, height, evaporation_rate) ==
    IF \/ width = 0 \/ height = 0
       \/ FGt(evaporation_rate, FromInt(1)) \/ FEq(evaporation_rate, FromInt(1))
    THEN None
    ELSE Some([pheromone_graph |->
                   [ACOGraph_new(width, height) EXCEPT
                       !.mat = [p \in DOMAIN @ |-> ONE]],
               evaporation_rate |-> evaporation_rate])

\* ACOMap::new of aco.rs: the pheromone matrix is filled with 1.0.
ACOMap_new(width, height, evaporation_rate) ==
    IF width = 0 \/ height = 0 \/ FGt(evaporation_rate, FromInt(1))
    THEN None
    ELSE Some([pheromone_graph |->
                   [ACOGraph_new(width, height) EXCEPT
                       !.mat = [p \in DOMAIN @ |-> ONE]],
               evaporation_rate |-> evaporation_rate])

\* ACOMap::set_outgoing_costs of main.rs, one offset i of its outer loop: the
\* edge to each cell the inner loop reaches is set to its cost.
RECURSIVE set_costs_column(_, _, _, _)
set_costs_column(graph, vertice, i, k) ==
    IF k > Len(Offsets) THEN graph
    ELSE LET new_x == vertice[1] + i
             new_y == vertice[2] + Offsets[k]
             v1 == <<new_x, new_y>>
         IN IF new_y < 0 \/ new_y >= graph.height \/ (i = 0 /\ Offsets[k] = 0)
            THEN set_costs_column(graph, vertice, i, k + 1)
            ELSE set_costs_column(
                     set_edg_value(graph, vertice, v1, cost(vertice, v1)),
                     vertice, i, k + 1)

RECURSIVE set_costs_from(_, _, _)
set_costs_from(graph, vertice, n) ==
    IF n > Len(Offsets) THEN graph
    ELSE LET new_x == vertice[1] + Offsets[n]
         IN IF new_x < 0 \/ new_x >= graph.width
            THEN set_costs_from(graph, vertice, n + 1)
            ELSE set_costs_from(set_costs_column(graph, vertice, Offsets[n], 1),
                                vertice, n + 1)

\* ACOMap::set_outgoing_costs
set_outgoing_costs(graph, vertice) == set_costs_from(graph, vertice, 1)

\* for i in 0..width { for j in 0..height { set_outgoing_costs((i, j)) } }
RECURSIVE set_all_costs(_, _)
set_all_costs(graph, n) ==
    IF n = 0 THEN graph
    ELSE set_outgoing_costs(set_all_costs(graph, n - 1),
                            <<(n - 1) \div graph.height, (n - 1) % graph.height>>)

\* ACOMap::new of main.rs: a cost table and a pheromone table.
Main_ACOMap_new(width, height, evaporation_rate) ==
    IF width = 0 \/ height = 0 \/ FGt(evaporation_rate, FromInt(1))
    THEN None
    ELSE Some([cost_graph |-> set_all_costs(ACOGraph_new(width, height), width * height),
               pheromone_graph |-> ACOGraph_new(width, height),
               evaporation_rate |-> evaporation_rate])

\* ACOMap::get_vertice_coordinates
get_vertice_coordinates(self, window_size, vertice) ==
    LET x_spacing == FDiv(FromInt(window_size[1]), FromInt(self.pheromone_graph.width))
        y_spacing == FDiv(FSub(FromInt(window_size[2]), x_spacing),
                          FromInt(self.pheromone_graph.height - 1))
        x_offs == FDiv(x_spacing, FromInt(2))
        y_offs == x_offs
        x == FAdd(x_offs, FMul(FromInt(vertice[1]), x_spacing))
        y == FAdd(y_offs, FMul(FromInt(vertice[2]), y_spacing))
    IN <<x, y>>

Vertices(width, height) == (0..(width - 1)) \X (0..(height - 1))


\* ------------------------------------------------------ walk controller
\* The walk controller's code is not among the sources; it is modelled from
\* spec.md section 4.6.

\* Capacity of the exclusions FIFO (spec.md sections 3 and 4.6).
MaxExclusions == 150

\* exclude without the eviction.
exclude_unbounded(exclusions, vertice) == Append(exclusions, vertice)

\* Insert into exclusions, evicting the oldest entry first at capacity.
exclude(exclusions, vertice) ==
    IF Len(exclusions) >= MaxExclusions
    THEN Append(Tail(exclusions), vertice)
    ELSE Append(exclusions, vertice)

\* ---------------------------------------------------------------- bounds
\* Largest grid the map operations are applied to.
MaxWidth == 3
MaxHeight == 3
\* Largest window width and height, in pixels (the smallest is 1).
MaxWindow == 3
\* Length of the one-row grid the exclusion buffer is filled on.
LineLen == 152

\* Evaporation rates passed to the constructor: 0.5, 1.0, 1.5, NaN.
Rates == {Fin(1, 2), Fin(1, 1), Fin(3, 2), NaN}

\* Grids get_next_vertice_with_exclusions is called on.
DeadEndGrids == {<<1, 1>>, <<2, 2>>, <<3, 1>>, <<2, 3>>}

\* Grids the walk is run on, as <<width, height>>.
WalkGrids == {<<1, 1>>, <<1, 2>>, <<2, 2>>, <<3, 1>>, <<2, 3>>, <<3, 3>>}

VARIABLES
    subjects,       \* RouletteSubjects.0
    prob_vertices,  \* VerticeProbabilities.prob_vertices
    pushed,         \* history: the pairs as they were pushed
    calls,          \* history: RouletteSubjects::roulette calls so far
    sel,            \* history: the last roulette call, its input, draw and result
    aco_map,        \* Option<ACOMap> of aco.rs
    main_map,       \* Option<ACOMap> of main.rs
    args,           \* history: the arguments of the last ACOMap::new
    window_size,    \* WindowContext.window_size, fixed when the window is made
    query,          \* the arguments get_next_vertice_with_exclusions is called with
    ret,            \* history: the last call of a map function and its value
    current,        \* walk state: the current vertex
    path,           \* walk state: the vertices walked through, oldest first
    exclusions,     \* walk state: the abandoned vertices, oldest first
    status,         \* "idle", "walking" or "exhausted" (path ran out)
    visited,        \* history: every vertex that has been current
    start,          \* history: the vertex the walk started at
    last            \* history: the last step, what it asked and what it got

rvars == <<subjects, prob_vertices, pushed, calls, sel>>
mvars == <<aco_map, main_map, args, window_size, query, ret>>
wvars == <<current, path, exclusions, status, visited, start, last>>
vars == <<rvars, mvars, wvars>>

NoCall == [who |-> "none", input |-> <<>>, random |-> 0, result |-> None]
NoArgs == [width |-> 0, height |-> 0, evaporation_rate |-> NaN, called |-> FALSE]
NoRet == [op |-> "none"]
NoQuery == [current |-> <<0, 0>>, exclusions |-> <<>>]
NoStep == [kind |-> "none"]

InitRoulette ==
    /\ subjects = <<>>
    /\ prob_vertices = <<>>
    /\ pushed = <<>>
    /\ calls = 0
    /\ sel = NoCall

\* No map has been constructed yet.
InitMap ==
    /\ aco_map = None
    /\ main_map = None
    /\ args = NoArgs
    /\ window_size = <<0, 0>>
    /\ query = NoQuery
    /\ ret = NoRet

\* No walk has been started.
NoWalk ==
    /\ current = <<0, 0>>
    /\ path = <<>>
    /\ exclusions = <<>>
    /\ status = "idle"
    /\ visited = {}
    /\ start = <<0, 0>>
    /\ last = NoStep

\* ------------------------------------------------------ selector actions
\* RouletteSubjects::push, and the push onto prob_vertices the tests of aco.rs
\* do: both tests push the same pairs, the item is the push's number.
push(weight) ==
    /\ Len(pushed) < MaxLen
    /\ LET value == [w |-> weight, item |-> Len(pushed) + 1]
       IN /\ subjects' = Append(subjects, value)
          /\ prob_vertices' = Append(prob_vertices, value)
          /\ pushed' = Append(pushed, value)
    /\ UNCHANGED <<calls, sel, mvars, wvars>>

RouletteSubjects_roulette ==
    /\ calls < MaxCalls
    /\ \E random \in Draws(probability_sum_of(RouletteSubjects_after(subjects))) :
          sel' = [who |-> "RouletteSubjects", input |-> subjects,
                  random |-> random,
                  result |-> RouletteSubjects_result(subjects, random)]
    /\ subjects' = RouletteSubjects_after(subjects)
    /\ calls' = calls + 1
    /\ UNCHANGED <<prob_vertices, pushed, mvars, wvars>>

VerticeProbabilities_roulette ==
    /\ \E random \in Draws(probability_sum_of(VerticeProbabilities_cumulative(prob_vertices))) :
          sel' = [who |-> "VerticeProbabilities", input |-> prob_vertices,
                  random |-> random,
                  result |-> VerticeProbabilities_result(prob_vertices, random)]
    /\ UNCHANGED <<subjects, prob_vertices, pushed, calls, mvars, wvars>>

\* ----------------------------------------------------------- map actions
\* ACOMap::new, of aco.rs and of main.rs, with the same arguments: a
\* constructor, it runs once for a map.
new(width, height, evaporation_rate) ==
    /\ ~args.called
    /\ aco_map' = ACOMap_new(width, height, evaporation_rate)
    /\ main_map' = Main_ACOMap_new(width, height, evaporation_rate)
    /\ args' = [width |-> width, height |-> height,
                evaporation_rate |-> evaporation_rate, called |-> TRUE]
    /\ ret' = NoRet
    /\ UNCHANGED <<window_size, query, rvars, wvars>>

call_get_neighbours(vertice) ==
    /\ aco_map # None
    /\ ret' = [op |-> "get_neighbours", vertice |-> vertice,
               value |-> get_neighbours(aco_map[1], vertice)]
    /\ UNCHANGED <<aco_map, main_map, args, window_size, query, rvars, wvars>>

\* cost(v0, v1) and cost(v1, v0), and both edges looked up in the cost table.
call_cost(v0, v1) ==
    /\ main_map # None
    /\ ret' = [op |-> "cost", v0 |-> v0, v1 |-> v1,
               value |-> cost(v0, v1),
               back |-> cost(v1, v0),
               looked_up |-> get_edg_value(main_map[1].cost_graph, v0, v1),
               looked_up_back |-> get_edg_value(main_map[1].cost_graph, v1, v0)]
    /\ UNCHANGED <<aco_map, main_map, args, window_size, query, rvars, wvars>>

\* get_vertice_coordinates with the window's size; `before` keeps the call
\* before it.
call_get_vertice_coordinates(vertice) ==
    /\ aco_map # None
    /\ ret' = [op |-> "get_vertice_coordinates", vertice |-> vertice,
               value |-> get_vertice_coordinates(aco_map[1], window_size, vertice),
               before |-> IF ret.op = "get_vertice_coordinates"
                          THEN Some([vertice |-> ret.vertice, value |-> ret.value])
                          ELSE None]
    /\ UNCHANGED <<aco_map, main_map, args, window_size, query, rvars, wvars>>

\* get_next_vertice_with_exclusions(query.current, &query.exclusions), with
\* one of the values it can return.
call_get_next_vertice_with_exclusions ==
    /\ aco_map # None
    /\ \E got \in get_next_vertice_with_exclusions(aco_map[1], query.current,
                                                    query.exclusions) :
          ret' = [op |-> "get_next_vertice_with_exclusions",
                  current |-> query.current, exclusions |-> query.exclusions,
                  value |-> got]
    /\ UNCHANGED <<aco_map, main_map, args, window_size, query, rvars, wvars>>

MapVertices == IF aco_map = None THEN {}
               ELSE Vertices(aco_map[1].pheromone_graph.width,
                             aco_map[1].pheromone_graph.height)

NextMap ==
    \/ \E width \in 0..MaxWidth, height \in 0..MaxHeight, rate \in Rates :
          new(width, height, rate)
    \/ \E vertice \in MapVertices : call_get_neighbours(vertice)
    \/ \E v0 \in MapVertices :
          \E v1 \in Range(get_neighbours(aco_map[1], v0)) : call_cost(v0, v1)

NextLayout == \E vertice \in MapVertices : call_get_vertice_coordinates(vertice)

\* The state after ACOMap::new(width, height, evaporation_rate) of aco.rs,
\* the map that has the walk's and the layout's functions.
Constructed(width, height, evaporation_rate) ==
    /\ aco_map = ACOMap_new(width, height, evaporation_rate)
    /\ main_map = None
    /\ args = [width |-> width, height |-> height,
               evaporation_rate |-> evaporation_rate, called |-> TRUE]
    /\ ret = NoRet

\* ---------------------------------------------------------- walk actions
\* The walk starts at start_vertice on a map of the given size (pheromone 1.0
\* everywhere, evaporation 0.5).
StartWalk(width, height, start_vertice) ==
    /\ Constructed(width, height, Fin(1, 2))
    /\ window_size = <<0, 0>>
    /\ query = NoQuery
    /\ current = start_vertice
    /\ path = <<>>
    /\ exclusions = <<>>
    /\ status = "walking"
    /\ visited = {start_vertice}
    /\ start = start_vertice
    /\ last = NoStep

\* Step 1 and 2: the candidates are the neighbours of current that are neither
\* in path nor in exclusions; one is drawn by likelihood.
candidates_asked == path \o exclusions

\* Step 3: a vertex was selected: push current onto path and move to it.
advance ==
    /\ status = "walking"
    /\ \E got \in get_next_vertice_with_exclusions(aco_map[1], current, candidates_asked) :
          /\ got # None
          /\ path' = Append(path, current)
          /\ current' = got[1]
          /\ visited' = visited \cup {got[1]}
          /\ last' = [kind |-> "advance", from |-> current, asked |-> candidates_asked,
                      path |-> path, exclusions |-> exclusions, got |-> got]
    /\ UNCHANGED <<exclusions, status, start, rvars, mvars>>

\* Step 4: no vertex was selected: current goes into exclusions and the walk
\* goes back to the last vertex of path; with path empty the walk is exhausted.
backtrack ==
    /\ status = "walking"
    /\ None \in get_next_vertice_with_exclusions(aco_map[1], current, candidates_asked)
    /\ exclusions' = exclude(exclusions, current)
    /\ IF path = <<>>
       THEN /\ status' = "exhausted"
            /\ UNCHANGED <<current, path>>
       ELSE /\ current' = Last(path)
            /\ path' = Front(path)
            /\ UNCHANGED status
    /\ last' = [kind |-> "dead_end", from |-> current, asked |-> candidates_asked,
                path |-> path, exclusions |-> exclusions, got |-> None]
    /\ UNCHANGED <<visited, start, rvars, mvars>>

NextWalk == advance \/ backtrack

\* -------------------------------------------------------- specifications
\* Empty collections, no map constructed, no walk started.
InitIdle == InitRoulette /\ InitMap /\ NoWalk

NextRoulette ==
    \/ \E weight \in Weights : push(weight)
    \/ RouletteSubjects_roulette
    \/ VerticeProbabilities_roulette

\* The selector: pairs are pushed and roulette() is called, in any order.
SpecRoulette == InitIdle /\ [][NextRoulette]_vars

\* The map: it is constructed and its functions are called.
SpecMap == InitIdle /\ [][NextMap]_vars

InitLayout ==
    /\ InitRoulette
    /\ NoWalk
    /\ \E width \in 1..MaxWidth, height \in 1..MaxHeight :
          Constructed(width, height, Fin(1, 2))
    /\ window_size \in (1..MaxWindow) \X (1..MaxWindow)
    /\ query = NoQuery

\* The layout function of a constructed map in a window of a fixed size.
SpecLayout == InitLayout /\ [][NextLayout]_vars

WalkFrom(grids) ==
    /\ InitRoulette
    /\ \E grid \in grids : \E v \in Vertices(grid[1], grid[2]) :
          StartWalk(grid[1], grid[2], v)

InitWalk == WalkFrom(WalkGrids)

\* The walk on small grids, from any start vertex.
SpecWalk == InitWalk /\ [][NextWalk]_vars

\* The walk starts at an end of the row or in its middle.
InitLine ==
    /\ InitRoulette
    /\ \E x \in {0, LineLen \div 2, LineLen - 1} : StartWalk(LineLen, 1, <<x, 0>>)

\* The walk on a one-row grid long enough to fill the exclusions buffer.
SpecLine == InitLine /\ [][NextWalk]_vars

\* A list of the members of S, each once.
RECURSIVE ListOf(_)
ListOf(S) ==
    IF S = {} THEN <<>>
    ELSE LET v == CHOOSE u \in S : TRUE IN <<v>> \o ListOf(S \ {v})

\* A constructed map, a vertex of it and an exclusion list of its vertices;
\* the collections of the selector are empty.
InitDeadEnd ==
    /\ InitRoulette
    /\ NoWalk
    /\ window_size = <<0, 0>>
    /\ \E grid \in DeadEndGrids :
          /\ Constructed(grid[1], grid[2], Fin(1, 2))
          /\ \E v \in Vertices(grid[1], grid[2]) :
             \E excluded \in SUBSET Vertices(grid[1], grid[2]) :
                query = [current |-> v, exclusions |-> ListOf(excluded)]

NextDeadEnd ==
    \/ RouletteSubjects_roulette
    \/ VerticeProbabilities_roulette
    \/ call_get_next_vertice_with_exclusions

\* roulette() on the empty collections, and get_next_vertice_with_exclusions
\* on any vertex and exclusion list.
SpecDeadEnd == InitDeadEnd /\ [][NextDeadEnd]_vars

\* ================================================================ claims

RECURSIVE SumInts(_)
SumInts(s) == IF s = <<>> THEN 0 ELSE SumInts(Front(s)) + Last(s)

\* The roulette's precondition: a non-empty collection, every weight >= 0 and
\* at least one > 0.
ValidCandidates(c) ==
    /\ c # <<>>
    /\ \A i \in 1..Len(c) : c[i].w >= 0
    /\ \E i \in 1..Len(c) : c[i].w > 0

\* Candidate j comes before candidate i in ascending-weight order (equal
\* weights in the order they stand in).
Precedes(c, j, i) == c[j].w < c[i].w \/ (c[j].w = c[i].w /\ j < i)

\* The cumulative value of candidate i: its weight and every weight before it.
Cumulative(c, i) ==
    SumInts([j \in 1..Len(c) |-> IF j = i \/ Precedes(c, j, i) THEN c[j].w ELSE 0])

TotalWeight(c) == SumInts([j \in 1..Len(c) |-> c[j].w])

\* The value roulette() of `who` returns on the collection c for the draw r.
ResultOf(who, c, r) ==
    IF who = "RouletteSubjects" THEN RouletteSubjects_result(c, r)
    ELSE VerticeProbabilities_result(c, r)

\* How many draw values make roulette() of `who` return `item` on c.
DrawsFor(who, c, item) ==
    Cardinality({r \in Draws(TotalWeight(c)) : ResultOf(who, c, r) = Some(item)})

\* C1: a roulette call on a valid collection, with a draw r in [0, sum of the
\* weights), returns an item (never None); the item is the first, in ascending
\* cumulative order, whose cumulative value exceeds r; and the number of draw
\* values that return an item is that item's weight, so an item is selected
\* with probability weight / sum and a zero-weight item never is.
C1_SingleDraw ==
    (sel.who # "none" /\ ValidCandidates(sel.input)) =>
        LET c == sel.input IN
        /\ sel.random \in 0..(TotalWeight(c) - 1)
        /\ sel.result # None
        /\ \E i \in 1..Len(c) :
              /\ sel.result = Some(c[i].item)
              /\ Cumulative(c, i) > sel.random
              /\ \A j \in 1..Len(c) :
                    Precedes(c, j, i) => Cumulative(c, j) <= sel.random
        /\ \A i \in 1..Len(c) : DrawsFor(sel.who, c, c[i].item) = c[i].w

\* The test's collection, weights 5, 2 and 3 in that order, the draw 5 and the
\* item of weight 5 returned by RouletteSubjects::roulette.
C1_Witness ==
    /\ sel.who = "RouletteSubjects"
    /\ [i \in 1..Len(sel.input) |-> sel.input[i].w] = <<5, 2, 3>>
    /\ sel.random = 5
    /\ sel.result = Some(1)

\* Item i is selected from the collection c with probability
\* (weight it was pushed with) / (sum of the pushed weights).
PushedDistribution(who, c) ==
    \A i \in 1..Len(pushed) :
        DrawsFor(who, c, pushed[i].item) * TotalWeight(pushed)
            = pushed[i].w * TotalWeight(c)

\* C2: before every roulette() call, the first and every later one, the
\* collection selects each item with probability pushed weight / sum of the
\* pushed weights, and the weights that decide the selection are the pushed
\* ones.
C2_SameDistribution ==
    /\ PushedDistribution("RouletteSubjects", subjects)
    /\ PushedDistribution("VerticeProbabilities", prob_vertices)
    /\ \A i \in 1..Len(pushed) :
          /\ \E k \in 1..Len(subjects) : subjects[k] = pushed[i]
          /\ \E k \in 1..Len(prob_vertices) : prob_vertices[k] = pushed[i]

\* ------------------------------------------------------------- the walk
GridWidth == aco_map[1].pheromone_graph.width
GridHeight == aco_map[1].pheromone_graph.height

Max(a, b) == IF a >= b THEN a ELSE b
Chebyshev(a, b) == Max(Abs(a[1] - b[1]), Abs(a[2] - b[2]))

\* The cells of the grid at Chebyshev distance 1 from v.
CellsAround(width, height, v) ==
    {u \in Vertices(width, height) : Chebyshev(u, v) = 1}

\* C3: the vertex a step selects as the next current is a cell of the grid at
\* Chebyshev distance 1 from the current one, and it was neither in path nor
\* in exclusions when the step was taken.
C3_NextIsFreshNeighbour ==
    last.kind = "advance" =>
        /\ current = last.got[1]
        /\ current \in Vertices(GridWidth, GridHeight)
        /\ Chebyshev(last.from, current) = 1
        /\ current \notin Range(last.path)
        /\ current \notin Range(last.exclusions)

\* A step forward taken with a path and with exclusions that both hold a
\* neighbour of the vertex it left.
C3_Witness ==
    /\ last.kind = "advance"
    /\ \E u \in CellsAround(GridWidth, GridHeight, last.from) : u \in Range(last.path)
    /\ \E u \in CellsAround(GridWidth, GridHeight, last.from) : u \in Range(last.exclusions)

\* C4: exclusions never holds more than 150 entries; a dead end appends current
\* to it, and when it held 150 entries the earliest one is removed and the
\* others keep their order.
C4_ExclusionsBounded ==
    /\ Len(exclusions) <= MaxExclusions
    /\ last.kind = "dead_end" =>
          IF Len(last.exclusions) = MaxExclusions
          THEN exclusions = Tail(last.exclusions) \o <<last.from>>
          ELSE exclusions = last.exclusions \o <<last.from>>

\* A dead end met with exclusions full.
C4_Witness ==
    /\ last.kind = "dead_end"
    /\ Len(last.exclusions) = MaxExclusions
    /\ Len(exclusions) = MaxExclusions

\* ------------------------------------------------------------- the map
\* evaporation_rate > 1.0, as a number: never true of NaN.
RateAboveOne(rate) ==
    \/ rate.k = "fin" /\ rate.n > rate.d
    \/ rate.k = "inf" /\ rate.n = 1

\* A graph of the size asked for: width, height, and an N x N matrix.
ValidGraph(graph, width, height) ==
    /\ graph.width = width
    /\ graph.height = height
    /\ DOMAIN graph.mat = (0..(width * height - 1)) \X (0..(width * height - 1))

\* C5: ACOMap::new(width, height, evaporation_rate), of aco.rs and of main.rs,
\* returns None exactly when width = 0 or height = 0 or evaporation_rate > 1.0,
\* and a map of that width, height and rate otherwise.
C5_NewFailsExactly ==
    args.called =>
        LET failure == \/ args.width = 0
                       \/ args.height = 0
                       \/ RateAboveOne(args.evaporation_rate)
        IN /\ (aco_map = None) <=> failure
           /\ (main_map = None) <=> failure
           /\ ~failure =>
                 /\ ValidGraph(aco_map[1].pheromone_graph, args.width, args.height)
                 /\ aco_map[1].evaporation_rate = args.evaporation_rate
                 /\ ValidGraph(main_map[1].pheromone_graph, args.width, args.height)
                 /\ ValidGraph(main_map[1].cost_graph, args.width, args.height)
                 /\ main_map[1].evaporation_rate = args.evaporation_rate

\* The construction with a rate of exactly 1.0, which succeeds.
C5_Witness ==
    /\ args.called
    /\ args.width > 0 /\ args.height > 0
    /\ args.evaporation_rate = Fin(1, 1)
    /\ aco_map # None /\ main_map # None

\* How many neighbours the claim gives a vertex: 8 off the boundary, 3 in a
\* corner, 5 elsewhere on the boundary.
OnBoundaryX(width, v) == v[1] = 0 \/ v[1] = width - 1
OnBoundaryY(height, v) == v[2] = 0 \/ v[2] = height - 1
ClaimedNeighbours(width, height, v) ==
    IF OnBoundaryX(width, v) /\ OnBoundaryY(height, v) THEN 3
    ELSE IF OnBoundaryX(width, v) \/ OnBoundaryY(height, v) THEN 5
    ELSE 8

\* Every returned cell is in bounds, differs from v, and appears once.
ProperCells(width, height, v, cells) ==
    /\ Range(cells) \subseteq Vertices(width, height)
    /\ v \notin Range(cells)
    /\ Cardinality(Range(cells)) = Len(cells)

\* C6, as amended: on a grid with width >= 2 and height >= 2, get_neighbours
\* returns 8 neighbours off the boundary, 5 on an edge and 3 in a corner; on
\* every grid each returned cell is in bounds, differs from v, appears once.
C6_NeighbourCounts ==
    ret.op = "get_neighbours" =>
        /\ ProperCells(GridWidth, GridHeight, ret.vertice, ret.value)
        /\ (GridWidth >= 2 /\ GridHeight >= 2) =>
              Len(ret.value) = ClaimedNeighbours(GridWidth, GridHeight, ret.vertice)

\* C6, as claimed: the counts 8, 5 and 3 on every grid.
C6_CountsOnEveryGrid ==
    ret.op = "get_neighbours" =>
        /\ ProperCells(GridWidth, GridHeight, ret.vertice, ret.value)
        /\ Len(ret.value) = ClaimedNeighbours(GridWidth, GridHeight, ret.vertice)

\* The centre of the 3 x 3 grid and its 8 neighbours.
C6_Witness ==
    /\ ret.op = "get_neighbours"
    /\ GridWidth = 3 /\ GridHeight = 3
    /\ ret.vertice = <<1, 1>>
    /\ Len(ret.value) = 8

\* The in-bounds neighbours of v are all in the list.
AllExcluded(width, height, v, list) ==
    CellsAround(width, height, v) \subseteq Range(list)

\* C7: roulette() on an empty collection returns None, and
\* get_next_vertice_with_exclusions returns None whenever every in-bounds
\* neighbour of current is in the exclusion list it is given (the one vertex
\* of a 1 x 1 grid has no neighbour).
C7_EmptyIsNone ==
    /\ (sel.who # "none" /\ sel.input = <<>>) => sel.result = None
    /\ (ret.op = "get_next_vertice_with_exclusions"
        /\ AllExcluded(GridWidth, GridHeight, ret.current, ret.exclusions)) =>
          ret.value = None

\* roulette() was called on an empty collection, and
\* get_next_vertice_with_exclusions on a vertex with neighbours, all excluded.
C7_Witness ==
    /\ sel.who = "RouletteSubjects" /\ sel.input = <<>> /\ sel.result = None
    /\ ret.op = "get_next_vertice_with_exclusions" /\ ret.value = None
    /\ CellsAround(GridWidth, GridHeight, ret.current) # {}
    /\ AllExcluded(GridWidth, GridHeight, ret.current, ret.exclusions)

\* C8: on the 3 x 3 map, the walk from (1,1) has visited every one of the 8
\* neighbours of (1,1) when its path is exhausted, whatever it drew.
C8_VisitsAllNeighbours ==
    (/\ GridWidth = 3 /\ GridHeight = 3
     /\ start = <<1, 1>>
     /\ status = "exhausted") =>
        /\ Cardinality(CellsAround(3, 3, <<1, 1>>)) = 8
        /\ CellsAround(3, 3, <<1, 1>>) \subseteq visited

\* The walk from (1,1) on the 3 x 3 map, exhausted.
C8_Witness ==
    /\ GridWidth = 3 /\ GridHeight = 3
    /\ start = <<1, 1>>
    /\ status = "exhausted"
    /\ current = <<1, 1>>

\* C9: two calls of get_vertice_coordinates with the same window size and
\* distinct vertices return distinct (x, y).
C9_Injective ==
    (/\ ret.op = "get_vertice_coordinates"
     /\ ret.before # None
     /\ ret.before[1].vertice # ret.vertice) =>
        ~(/\ FEq(ret.value[1], ret.before[1].value[1])
          /\ FEq(ret.value[2], ret.before[1].value[2]))

\* C10: for adjacent a and b, cost(a, b) and the cost table's entry a -> b are
\* 1.0 when exactly one coordinate differs and sqrt(2) (to 1/ONE) when both
\* do, and they equal cost(b, a) and the table's entry b -> a.
C10_CostOfAdjacent ==
    ret.op = "cost" =>
        LET dx == ret.v0[1] # ret.v1[1]
            dy == ret.v0[2] # ret.v1[2]
        IN /\ Chebyshev(ret.v0, ret.v1) = 1
           /\ (dx /\ dy) =>
                 /\ ret.value = SQRT_OF_2
                 /\ SQRT_OF_2 * SQRT_OF_2 <= 2 * ONE * ONE
                 /\ (SQRT_OF_2 + 1) * (SQRT_OF_2 + 1) > 2 * ONE * ONE
           /\ (dx # dy) => ret.value = ONE
           /\ ret.looked_up = ret.value
           /\ ret.back = ret.value
           /\ ret.looked_up_back = ret.value

\* A diagonal edge, its cost computed and looked up.
C10_Witness ==
    /\ ret.op = "cost"
    /\ ret.v0[1] # ret.v1[1] /\ ret.v0[2] # ret.v1[2]
    /\ ret.looked_up = SQRT_OF_2

\* A pheromone table as claimed: N x N for N = width * height, 0 on the
\* diagonal (the self-edges) and 1.0 everywhere else.
ClaimedPheromone(graph, width, height) ==
    /\ ValidGraph(graph, width, height)
    /\ \A p \in DOMAIN graph.mat :
          graph.mat[p] = IF p[1] = p[2] THEN 0 ELSE ONE

\* C11: right after a successful ACOMap::new(width, height, rate), of aco.rs
\* and of main.rs, the pheromone table is N x N with N = width * height, every
\* diagonal entry is 0 and every off-diagonal entry is 1.0.
C11_PheromoneTable ==
    (args.called /\ ret = NoRet /\ aco_map # None /\ main_map # None) =>
        /\ ClaimedPheromone(aco_map[1].pheromone_graph, args.width, args.height)
        /\ ClaimedPheromone(main_map[1].pheromone_graph, args.width, args.height)

====
